---- MODULE Spec2Model ----
(***************************************************************************)
(* The server-push command dispatcher of BOT.py: the registry sse_clients  *)
(* guarded by sse_lock, the producers send_command and operator_reply, and *)
(* the generator event_stream of the /sse/<user_id> route.                 *)
(*                                                                         *)
(* A session is one run of the generator event_stream.  The generator is   *)
(* suspended at each yield while the serving layer writes the event; the   *)
(* serving layer then resumes it (the write succeeded), closes it          *)
(* (GeneratorExit is raised at the yield: the peer is gone or the write    *)
(* failed) or raises an ordinary exception at the yield.                   *)
(*                                                                         *)
(* Time is counted in ticks of command_check_interval (0.05 s).  The       *)
(* timers of the generator are kept as ages: since_heartbeat[s] stands     *)
(* for time.time() - last_heartbeat, and so on; the code only ever         *)
(* compares such differences with its two intervals, so an age is capped   *)
(* at, or just above, the interval it is compared with.                    *)
(***************************************************************************)
EXTENDS Integers, Sequences, FiniteSets, TLC

\* ------------------------------------------------------------------ bounds
Users == {"u1", "u2"}
Sessions == {"s1", "s2"}
Producers == {"p1", "p2"}
\* the recipients a session slot may be opened for, and the handler a
\* producer thread runs.  The slots are interchangeable, and so are the
\* recipients: the first stream opened is s1, for u1.
Routes == [s \in Sessions |-> IF s = "s1" THEN {"u1"} ELSE Users]
SendCommandThreads == {"p1"}
OperatorReplyThreads == {"p2"}

\* requests that pass validation, over the whole run
MaxCmds == 2
\* heartbeats written, by all streams together, after which the clock of
\* the untimed specifications (Elapse) stops
MaxBeats == 1
\* heartbeats written, by all streams together, after which the clock of
\* the timed specification (Tick) stops: two, so that a stream can write one
\* heartbeat after another
MaxTimedBeats == 2

\* --------------------------------------------------------------- constants
\* heartbeat_interval = 15 (seconds), line 116
heartbeat_interval == 15
\* ticks per second: command_check_interval = 0.05 s is one tick, line 118
TicksPerSecond == 20
HeartbeatTicks == heartbeat_interval * TicksPerSecond
\* command_check_interval, in ticks
CommandCheckTicks == 1
\* time.sleep(0.05) at the end of a loop iteration, in ticks
SleepTicks == 1

None == "None"
NoOwner == "free"

VARIABLES
    sse_clients,      \* the registry: a function from the registered ids to queues
    sse_lock,         \* NoOwner, or the session that holds the lock across a yield
    pc,               \* position of each session's generator
    user_id,          \* the recipient a session serves
    commands_to_send, \* the copy of the backlog taken at line 92
    idx,              \* 1-based index of the drained command being sent (the
                      \* loop variable i of line 95, plus one)
    command,          \* the command popped at line 141 and in flight
    check_due,        \* value of the test of line 134 for this iteration
    since_heartbeat,  \* time.time() - last_heartbeat
    since_check,      \* time.time() - last_command_check
    since_current,    \* time.time() - current_time, while a heartbeat is written
    wire,             \* the events written to each session's peer, in order
    reply,            \* HTTP status of the last response to a producer (0: none yet)
    accepted,         \* log of the appended commands: recipient, producer, command
    reconnect,        \* whether a session of the same recipient had ended when
                      \* this one was opened
    requeued,         \* history, kept by FailureSpec only: the tags of the
                      \* commands put back by line 151
    since_yield,      \* history: the time since the generator last yielded a
                      \* heartbeat, or since it entered the steady state
    health_reply,     \* kept by RequestSpec only: the counts of the last
                      \* response of health, as a sequence of one element
                      \* (empty: none yet)
    chat_messages,    \* the rows committed to the table chat_messages by
                      \* operator_reply, in order
    replying          \* used by ReplySpec only: for each thread that runs
                      \* operator_reply, the request it has committed and not
                      \* yet enqueued, as a sequence of one element (empty:
                      \* none)

vars == <<sse_clients, sse_lock, pc, user_id, commands_to_send, idx, command,
          check_due, since_heartbeat, since_check, since_current,
          wire, reply, accepted, reconnect, requeued, health_reply,
          since_yield, chat_messages, replying>>

sessVars == <<pc, user_id, commands_to_send, idx, command, check_due,
              since_heartbeat, since_check, since_current, wire,
              reconnect, requeued, since_yield>>
prodVars == <<reply, accepted, chat_messages, replying>>

Min(a, b) == IF a < b THEN a ELSE b

\* ------------------------------------------------------------------ events
\* json.dumps({'type': 'connected', ...}), line 79
ConnectedEvent == [type |-> "connected"]
\* json.dumps({'type': 'heartbeat', ...}), line 127 (its timestamp is left out)
HeartbeatEvent == [type |-> "heartbeat"]

\* command_data of send_command
BotCommand(action, payment_id, ts) ==
    [type |-> "bot_command", action |-> action, payment_id |-> payment_id,
     timestamp |-> ts]

\* command_data of operator_reply
ChatMessage(message, ts) ==
    [type |-> "chat_message", action |-> "operator_reply", message |-> message,
     message_id |-> ts, timestamp |-> ts]

\* ---------------------------------------------------------------- registry
\* sse_clients.get(user_id, [])
QueueOf(u) == IF u \in DOMAIN sse_clients THEN sse_clients[u] ELSE <<>>

\* faulty variant of GetOrCreate: the queue is created without the
\* membership test of lines 82 and 392, over whatever was registered
GetOrCreate_fresh(reg, u) == (u :> <<>>) @@ reg

\* faulty variant of GetOrCreate: a new queue starts as the list of a queue
\* that is already registered
GetOrCreate_aliased(reg, u) ==
    IF u \in DOMAIN reg THEN reg
    ELSE IF DOMAIN reg = {} THEN (u :> <<>>) @@ reg
    ELSE (u :> reg[CHOOSE v \in DOMAIN reg : TRUE]) @@ reg

\* if user_id not in sse_clients: sse_clients[user_id] = []
GetOrCreate(reg, u) == IF u \in DOMAIN reg THEN reg ELSE (u :> <<>>) @@ reg

\* what the request supplied of a command: the dict of line 384 or 953
\* without the clock readings of the server
Content(e) == [f \in DOMAIN e \ {"timestamp", "message_id"} |-> e[f]]

\* faulty variant of AppendCommand: a command whose content is already
\* queued for the recipient is not appended again
AppendCommand_dedup(reg, u, c) ==
    LET r == IF u \in DOMAIN reg THEN reg ELSE (u :> <<>>) @@ reg
    IN  IF \E i \in DOMAIN r[u] : Content(r[u][i].event) = Content(c.event)
        THEN r
        ELSE [r EXCEPT ![u] = Append(r[u], c)]

\* faulty variant of AppendCommand: the command is appended to every
\* registered queue
AppendCommand_broadcast(reg, u, c) ==
    LET r == IF u \in DOMAIN reg THEN reg ELSE (u :> <<>>) @@ reg
    IN  [v \in DOMAIN r |-> Append(r[v], c)]

\* sse_clients[user_id].append(command_data), after the creation check
AppendCommand(reg, u, c) ==
    LET r == GetOrCreate(reg, u) IN [r EXCEPT ![u] = Append(r[u], c)]

\* the ghost tag of the k-th appended command: it tells apart two commands
\* of equal content and is no field of the dict the code queues
Tagged(c, k) == [event |-> c, seq |-> k]
\* the events of the generator itself carry the tag 0
Untagged(e) == Tagged(e, 0)
\* the value of the local command of lines 141-151 while no popped command
\* is in flight
NoCommand == Untagged([type |-> "none"])
IsCommand(x) == x.event.type \in {"bot_command", "chat_message"}

\* datetime.datetime.now().isoformat() of an accepted request: the readings
\* grow from one accepted request to the next
Timestamp == Len(accepted) + 1

\* -------------------------------------------------------------- producers
\* A producer blocked on sse_lock is a producer whose action is not enabled:
\* between its validation and its critical section a handler touches nothing
\* that is shared.

\* the requests a thread has committed and not yet enqueued
Pending == Cardinality({p \in OperatorReplyThreads : replying[p] # <<>>})

\* faulty variant of send_command: the queue of the recipient is created
\* before the test of line 381
send_command_registering(p, u, action) ==
    /\ IF u = None
       THEN /\ reply' = 400
            /\ UNCHANGED <<sse_clients, accepted>>
       ELSE IF action = None
       THEN /\ reply' = 400
            /\ sse_lock = NoOwner
            /\ sse_clients' = GetOrCreate(sse_clients, u)
            /\ UNCHANGED accepted
       ELSE /\ Len(accepted) + Pending < MaxCmds
            /\ sse_lock = NoOwner
            /\ sse_clients' = AppendCommand(sse_clients, u,
                  Tagged(BotCommand(action, "p1", Timestamp), Len(accepted) + 1))
            /\ accepted' = Append(accepted, [user |-> u, by |-> p,
                  item |-> Tagged(BotCommand(action, "p1", Timestamp),
                                  Len(accepted) + 1)])
            /\ reply' = 200
    /\ UNCHANGED <<sse_lock, sessVars, health_reply, chat_messages, replying>>

\* faulty variant of send_command: the queue is written without sse_lock
send_command_unlocked(p, u, action) ==
    /\ IF u = None \/ action = None
       THEN /\ reply' = 400
            /\ UNCHANGED <<sse_clients, accepted>>
       ELSE /\ Len(accepted) + Pending < MaxCmds
            /\ sse_clients' = AppendCommand(sse_clients, u,
                  Tagged(BotCommand(action, "p1", Timestamp), Len(accepted) + 1))
            /\ accepted' = Append(accepted, [user |-> u, by |-> p,
                  item |-> Tagged(BotCommand(action, "p1", Timestamp),
                                  Len(accepted) + 1)])
            /\ reply' = 200
    /\ UNCHANGED <<sse_lock, sessVars, health_reply, chat_messages, replying>>

\* send_command, lines 376-407: validation, construction of command_data and
\* the critical section of lines 391-395 (create the queue if missing, append)
send_command(p, u, action) ==
    /\ IF u = None \/ action = None
       THEN /\ reply' = 400
            /\ UNCHANGED <<sse_clients, accepted>>
       ELSE /\ Len(accepted) + Pending < MaxCmds
            /\ sse_lock = NoOwner
            /\ sse_clients' = AppendCommand(sse_clients, u,
                  Tagged(BotCommand(action, "p1", Timestamp), Len(accepted) + 1))
            /\ accepted' = Append(accepted, [user |-> u, by |-> p,
                  item |-> Tagged(BotCommand(action, "p1", Timestamp),
                                  Len(accepted) + 1)])
            /\ reply' = 200
    /\ UNCHANGED <<sse_lock, sessVars, health_reply, chat_messages, replying>>

\* the row of the INSERT of lines 945-948 (reply_to_message_id is left out)
ChatRow(u, message) == [user_id |-> u, message |-> message, sender |-> "operator"]

\* operator_reply, lines 930-983, as one step, taken when its critical
\* section can be entered: validation, the insert into chat_messages
\* (db_ok: the connection was obtained and the insert committed), the
\* construction of command_data and the critical section of lines 964-969
operator_reply(p, u, message, db_ok) ==
    /\ IF u = None \/ message = None
       THEN /\ reply' = 400
            /\ UNCHANGED <<sse_clients, accepted, chat_messages>>
       ELSE IF ~db_ok
       THEN /\ reply' = 500
            /\ UNCHANGED <<sse_clients, accepted, chat_messages>>
       ELSE /\ Len(accepted) + Pending < MaxCmds
            /\ sse_lock = NoOwner
            /\ chat_messages' = Append(chat_messages, ChatRow(u, message))
            /\ sse_clients' = AppendCommand(sse_clients, u,
                  Tagged(ChatMessage(message, Timestamp), Len(accepted) + 1))
            /\ accepted' = Append(accepted, [user |-> u, by |-> p,
                  item |-> Tagged(ChatMessage(message, Timestamp),
                                  Len(accepted) + 1)])
            /\ reply' = 200
    /\ UNCHANGED <<sse_lock, sessVars, health_reply, replying>>

\* what becomes of lines 938-950: get_db_connection() gives None, or
\* execute/commit raises, or the insert is committed
DbOutcomes == {"committed", "no_connection", "insert_failed"}

\* faulty variant of operator_reply_persist: the outcome of the insert is
\* not looked at, and the handler goes on to its critical section
operator_reply_persist_unchecked(p, u, message, db) ==
    /\ replying[p] = <<>>
    /\ IF u = None \/ message = None
       THEN /\ reply' = 400
            /\ UNCHANGED <<chat_messages, replying>>
       ELSE /\ Len(accepted) + Pending < MaxCmds
            /\ chat_messages' = IF db = "committed"
                                THEN Append(chat_messages, ChatRow(u, message))
                                ELSE chat_messages
            /\ replying' = [replying EXCEPT ![p] =
                  <<[user_id |-> u, message |-> message, timestamp |-> Timestamp]>>]
            /\ UNCHANGED reply
    /\ UNCHANGED <<sse_clients, accepted, sse_lock, sessVars, health_reply>>

\* operator_reply, lines 930-960, the handler up to its critical section:
\* validation (934), the connection (938-940), the insert and its commit
\* (945-950; an exception goes to line 985) and the construction of
\* command_data with its clock reading (953-960)
operator_reply_persist(p, u, message, db) ==
    /\ replying[p] = <<>>
    /\ IF u = None \/ message = None
       THEN /\ reply' = 400
            /\ UNCHANGED <<chat_messages, replying>>
       ELSE IF db # "committed"
       THEN /\ reply' = 500
            /\ UNCHANGED <<chat_messages, replying>>
       ELSE /\ Len(accepted) + Pending < MaxCmds
            /\ chat_messages' = Append(chat_messages, ChatRow(u, message))
            /\ replying' = [replying EXCEPT ![p] =
                  <<[user_id |-> u, message |-> message, timestamp |-> Timestamp]>>]
            /\ UNCHANGED reply
    /\ UNCHANGED <<sse_clients, accepted, sse_lock, sessVars, health_reply>>

\* operator_reply, lines 964-983: the critical section (create the queue if
\* missing, append) and the response
operator_reply_enqueue(p) ==
    /\ replying[p] # <<>>
    /\ sse_lock = NoOwner
    /\ LET r == replying[p][1]
           c == Tagged(ChatMessage(r.message, r.timestamp), Len(accepted) + 1)
       IN  /\ sse_clients' = AppendCommand(sse_clients, r.user_id, c)
           /\ accepted' = Append(accepted, [user |-> r.user_id, by |-> p, item |-> c])
    /\ reply' = 200
    /\ replying' = [replying EXCEPT ![p] = <<>>]
    /\ UNCHANGED <<sse_lock, sessVars, health_reply, chat_messages>>

\* len(sse_clients), line 422
UsersCount(reg) == Cardinality(DOMAIN reg)

\* sum(len(commands) for commands in sse_clients.values()), line 423
RECURSIVE SumLen(_, _)
SumLen(reg, K) ==
    IF K = {} THEN 0
    ELSE LET k == CHOOSE x \in K : TRUE
         IN  Len(reg[k]) + SumLen(reg, K \ {k})

\* faulty variant of TotalCommands: the queues that hold something are
\* counted instead of their commands
TotalCommands_queues(reg) == Cardinality({k \in DOMAIN reg : reg[k] # <<>>})

TotalCommands(reg) == SumLen(reg, DOMAIN reg)

\* the counts of the response built at lines 425-431
HealthResponse ==
    [users_count |-> UsersCount(sse_clients),
     total_commands |-> TotalCommands(sse_clients)]

\* health, lines 419-431: under the lock the number of keys and the total
\* length of the queues are read for the response; nothing is written
health ==
    /\ sse_lock = NoOwner
    /\ UNCHANGED <<sse_clients, sse_lock, sessVars, prodVars>>

\* ---------------------------------------------------------------- sessions
\* faulty variant of CopyQueue: only the head of the queue is copied
CopyQueue_head(q) == <<Head(q)>>

\* faulty variant of CopyQueue: the copy is taken back to front
CopyQueue_reversed(q) == [i \in 1..Len(q) |-> q[Len(q) + 1 - i]]

\* faulty variant of CopyQueue: the copied commands are stamped anew
CopyQueue_restamped(q) ==
    [i \in 1..Len(q) |-> [q[i] EXCEPT !.event.timestamp = 0]]

\* the backlog copy of line 92: list(sse_clients[user_id]), a new list of
\* the same dicts
CopyQueue(q) == q

\* faulty variant of ClearedQueue: the key is deleted instead of being set
\* to the empty list
ClearedQueue_deleted(reg, u) == [v \in DOMAIN reg \ {u} |-> reg[v]]

\* faulty variant of ClearedQueue: the queue is left as it was
ClearedQueue_kept(reg, u) == reg

\* line 93: sse_clients[user_id] = []
ClearedQueue(reg, u) == [reg EXCEPT ![u] = <<>>]

\* faulty variant of PopFront: the head is read and left in the queue
PopFront_peek(q) == [head |-> Head(q), rest |-> q]

\* faulty variant of PopFront: pop() takes the command enqueued last
PopFront_last(q) == [head |-> q[Len(q)], rest |-> SubSeq(q, 1, Len(q) - 1)]

\* line 141: command = sse_clients[user_id].pop(0)
PopFront(q) == [head |-> Head(q), rest |-> Tail(q)]
\* faulty variant of PushFront: the command is put back at the tail
PushFront_back(q, c) == Append(q, c)

\* line 151: sse_clients[user_id].insert(0, command)
PushFront(q, c) == <<c>> \o q

\* lines 115-117: the timers are started on entry to the steady state
EnterSteady(s) ==
    /\ since_heartbeat' = [since_heartbeat EXCEPT ![s] = 0]
    /\ since_yield' = [since_yield EXCEPT ![s] = 0]
    /\ since_check' = [since_check EXCEPT ![s] = 0]
    /\ pc' = [pc EXCEPT ![s] = "loop"]

\* lines 158 and 161: last_command_check = current_time, then
\* time.sleep(0.05): when the generator is back at line 121,
\* command_check_interval has elapsed since current_time was read
EndOfPoll(s) ==
    /\ since_check' = [since_check EXCEPT ![s] = SleepTicks]
    /\ check_due' = [check_due EXCEPT ![s] = FALSE]
    /\ pc' = [pc EXCEPT ![s] = "loop"]

\* the slots are used in order
InSlotOrder(s) == s = "s1" \/ pc["s1"] # "idle"

\* faulty variant of Open: the queue of the recipient is registered when the
\* route is entered, before the connected event is written
Open_registering(s, u) ==
    /\ pc[s] = "idle"
    /\ sse_lock = NoOwner
    /\ sse_clients' = GetOrCreate(sse_clients, u)
    /\ pc' = [pc EXCEPT ![s] = "connected"]
    /\ user_id' = [user_id EXCEPT ![s] = u]
    /\ reconnect' = [reconnect EXCEPT ![s] =
          \E t \in Sessions : user_id[t] = u /\ pc[t] \in {"teardown", "closed"}]
    /\ UNCHANGED <<sse_lock, commands_to_send, idx, command,
                   check_due, since_heartbeat, since_check, since_current, wire,
                   requeued, prodVars, health_reply, since_yield>>

\* sse(user_id): the route builds the generator and the serving layer runs it
\* to its first yield, line 79
Open(s, u) ==
    /\ pc[s] = "idle"
    /\ pc' = [pc EXCEPT ![s] = "connected"]
    /\ user_id' = [user_id EXCEPT ![s] = u]
    /\ reconnect' = [reconnect EXCEPT ![s] =
          \E t \in Sessions : user_id[t] = u /\ pc[t] \in {"teardown", "closed"}]
    /\ UNCHANGED <<sse_clients, sse_lock, commands_to_send, idx, command,
                   check_due, since_heartbeat, since_check, since_current, wire, requeued, prodVars, health_reply, since_yield>>

\* faulty variant of ConnectedSent: the generator starts at line 81 and
\* writes no connected event
ConnectedSent_silent(s) ==
    /\ pc[s] = "connected"
    /\ pc' = [pc EXCEPT ![s] = "register"]
    /\ UNCHANGED <<sse_clients, sse_lock, user_id, commands_to_send, idx,
                   command, check_due, since_heartbeat, since_check,
                   since_current, wire, reconnect, requeued, prodVars, health_reply, since_yield>>

\* line 79: the connected event was written and the generator is resumed
ConnectedSent(s) ==
    /\ pc[s] = "connected"
    /\ wire' = [wire EXCEPT ![s] = Append(@, Untagged(ConnectedEvent))]
    /\ pc' = [pc EXCEPT ![s] = "register"]
    /\ UNCHANGED <<sse_clients, sse_lock, user_id, commands_to_send, idx,
                   command, check_due, since_heartbeat, since_check,
                   since_current, reconnect, requeued, prodVars, health_reply, since_yield>>

\* line 79: the generator is closed, or an exception is raised, at its first
\* yield, which no try statement encloses: the generator ends
ConnectedFailed(s) ==
    /\ pc[s] = "connected"
    /\ pc' = [pc EXCEPT ![s] = "closed"]
    /\ UNCHANGED <<sse_clients, sse_lock, user_id, commands_to_send, idx,
                   command, check_due, since_heartbeat, since_check,
                   since_current, wire, reconnect, requeued, prodVars, health_reply, since_yield>>

\* faulty variant of Register: line 83 without the test of line 82
Register_fresh(s) ==
    /\ pc[s] = "register"
    /\ sse_lock = NoOwner
    /\ sse_clients' = (user_id[s] :> <<>>) @@ sse_clients
    /\ pc' = [pc EXCEPT ![s] = "drain"]
    /\ UNCHANGED <<sse_lock, user_id, commands_to_send, idx, command,
                   check_due, since_heartbeat, since_check, since_current,
                   wire, reconnect, requeued, prodVars, health_reply, since_yield>>

\* lines 81-85: with sse_lock: register an empty queue if there is none
Register(s) ==
    /\ pc[s] = "register"
    /\ sse_lock = NoOwner
    /\ sse_clients' = GetOrCreate(sse_clients, user_id[s])
    /\ pc' = [pc EXCEPT ![s] = "drain"]
    /\ UNCHANGED <<sse_lock, user_id, commands_to_send, idx, command,
                   check_due, since_heartbeat, since_check, since_current, wire, reconnect, requeued, prodVars, health_reply, since_yield>>

\* lines 89-90 and 115-117: the lock is taken, the queue is empty, the lock
\* is released and the timers are started
DrainNothing(s) ==
    /\ pc[s] = "drain"
    /\ sse_lock = NoOwner
    /\ QueueOf(user_id[s]) = <<>>
    /\ EnterSteady(s)
    /\ UNCHANGED <<sse_clients, sse_lock, user_id, commands_to_send, idx,
                   command, check_due, since_current, wire,
                   reconnect, requeued, prodVars, health_reply>>

\* lines 89-99: the lock is taken, the backlog is copied and the queue
\* cleared, and the generator yields the first command with the lock held
DrainStart(s) ==
    /\ pc[s] = "drain"
    /\ sse_lock = NoOwner
    /\ QueueOf(user_id[s]) # <<>>
    /\ sse_lock' = s
    /\ commands_to_send' = [commands_to_send EXCEPT ![s] =
                               CopyQueue(sse_clients[user_id[s]])]
    /\ sse_clients' = ClearedQueue(sse_clients, user_id[s])
    /\ idx' = [idx EXCEPT ![s] = 1]
    /\ pc' = [pc EXCEPT ![s] = "drain_yield"]
    /\ UNCHANGED <<user_id, command, check_due, since_heartbeat, since_check,
                   since_current, wire, reconnect, requeued, prodVars, health_reply, since_yield>>

\* lines 99-103 and 95-99: the command was written; the generator sleeps
\* 0.01 s with the lock held and yields the next drained command
DrainSent(s) ==
    /\ pc[s] = "drain_yield"
    /\ idx[s] < Len(commands_to_send[s])
    /\ wire' = [wire EXCEPT ![s] = Append(@, commands_to_send[s][idx[s]])]
    /\ idx' = [idx EXCEPT ![s] = @ + 1]
    /\ UNCHANGED <<sse_clients, sse_lock, pc, user_id, commands_to_send,
                   command, check_due, since_heartbeat, since_check,
                   since_current, reconnect, requeued, prodVars, health_reply, since_yield>>

\* lines 99-117: the last drained command was written; the for loop ends,
\* the lock is released and the timers are started
DrainDone(s) ==
    /\ pc[s] = "drain_yield"
    /\ idx[s] = Len(commands_to_send[s])
    /\ wire' = [wire EXCEPT ![s] = Append(@, commands_to_send[s][idx[s]])]
    /\ sse_lock' = NoOwner
    /\ idx' = [idx EXCEPT ![s] = @ + 1]
    /\ EnterSteady(s)
    /\ UNCHANGED <<sse_clients, user_id, commands_to_send, command, check_due,
                   since_current, reconnect, requeued, prodVars, health_reply>>

\* faulty variant of DrainClosed: the lock is taken by acquire() with no
\* with statement, and the close of the generator leaves it taken
DrainClosed_holding(s) ==
    /\ pc[s] = "drain_yield"
    /\ pc' = [pc EXCEPT ![s] = "closed"]
    /\ UNCHANGED <<sse_clients, sse_lock, user_id, commands_to_send, idx,
                   command, check_due, since_heartbeat, since_check,
                   since_current, wire, reconnect, requeued, prodVars,
                   health_reply, since_yield>>

\* line 99: the generator is closed while suspended in the drain.
\* GeneratorExit is no Exception: neither handler (104, 112) catches it, the
\* with statement of line 89 releases the lock and the generator ends, outside
\* the try of line 120.  commands_to_send is a local of the generator: what
\* is left of it is in no queue (the variable is kept as what it last held).
DrainClosed(s) ==
    /\ pc[s] = "drain_yield"
    /\ sse_lock' = NoOwner
    /\ pc' = [pc EXCEPT ![s] = "closed"]
    /\ UNCHANGED <<sse_clients, user_id, commands_to_send, idx, command,
                   check_due, since_heartbeat, since_check, since_current, wire, reconnect, requeued, prodVars, health_reply, since_yield>>

\* lines 104-107: an exception is raised at the yield of the drain; the
\* handler asks for sse_lock, a threading.Lock this same thread holds since
\* line 89, and blocks for good: lines 108-110 are never run
DrainRaised(s) ==
    /\ pc[s] = "drain_yield"
    /\ pc' = [pc EXCEPT ![s] = "drain_blocked"]
    /\ UNCHANGED <<sse_clients, sse_lock, user_id, commands_to_send, idx,
                   command, check_due, since_heartbeat, since_check,
                   since_current, wire, reconnect, requeued, prodVars, health_reply, since_yield>>

\* the locals of the steady state die with the generator
DropTimers(s) ==
    /\ since_heartbeat' = [since_heartbeat EXCEPT ![s] = 0]
    /\ since_yield' = [since_yield EXCEPT ![s] = 0]
    /\ since_check' = [since_check EXCEPT ![s] = 0]
    /\ since_current' = [since_current EXCEPT ![s] = 0]
    /\ check_due' = [check_due EXCEPT ![s] = FALSE]

\* line 125: current_time - last_heartbeat >= heartbeat_interval
HeartbeatDue(s) == since_heartbeat[s] >= HeartbeatTicks
\* line 134: current_time - last_command_check >= command_check_interval
CheckDue(s) == since_check[s] >= CommandCheckTicks

\* lines 122-127: current_time is read, the heartbeat is due and is yielded
LoopHeartbeat(s) ==
    /\ pc[s] = "loop"
    /\ HeartbeatDue(s)
    /\ since_current' = [since_current EXCEPT ![s] = 0]
    /\ since_yield' = [since_yield EXCEPT ![s] = 0]
    /\ check_due' = [check_due EXCEPT ![s] = CheckDue(s)]
    /\ pc' = [pc EXCEPT ![s] = "hb_yield"]
    /\ UNCHANGED <<sse_clients, sse_lock, user_id, commands_to_send, idx,
                   command, since_heartbeat, since_check, wire,
                   reconnect, requeued, prodVars, health_reply>>

\* lines 122-161: current_time is read and nothing is due (the first
\* iteration): the generator sleeps 0.05 s, after which the check is due
LoopIdle(s) ==
    /\ pc[s] = "loop"
    /\ ~HeartbeatDue(s)
    /\ ~CheckDue(s)
    /\ since_check' = [since_check EXCEPT ![s] = SleepTicks]
    /\ UNCHANGED <<sse_clients, sse_lock, pc, user_id, commands_to_send, idx,
                   command, check_due, since_heartbeat, since_current, wire,
                   reconnect, requeued, prodVars, health_reply, since_yield>>

\* faulty variant of LoopCheck: the test of line 134 comes before the test
\* of line 125
LoopCheck_first(s) ==
    /\ pc[s] = "loop"
    /\ CheckDue(s)
    /\ check_due' = [check_due EXCEPT ![s] = TRUE]
    /\ pc' = [pc EXCEPT ![s] = "poll"]
    /\ UNCHANGED <<sse_clients, sse_lock, user_id, commands_to_send, idx,
                   command, since_heartbeat, since_check, since_current, wire,
                   reconnect, requeued, prodVars, health_reply, since_yield>>

\* lines 122-135: current_time is read, no heartbeat is due and the check
\* is: the generator asks for sse_lock
LoopCheck(s) ==
    /\ pc[s] = "loop"
    /\ ~HeartbeatDue(s)
    /\ CheckDue(s)
    /\ check_due' = [check_due EXCEPT ![s] = TRUE]
    /\ pc' = [pc EXCEPT ![s] = "poll"]
    /\ UNCHANGED <<sse_clients, sse_lock, user_id, commands_to_send, idx,
                   command, since_heartbeat, since_check, since_current, wire,
                   reconnect, requeued, prodVars, health_reply, since_yield>>

\* faulty variant of HeartbeatSent: line 128 is left out, last_heartbeat
\* keeps the value it had before the heartbeat
HeartbeatSent_stale(s) ==
    /\ pc[s] = "hb_yield"
    /\ wire' = [wire EXCEPT ![s] = Append(@, Untagged(HeartbeatEvent))]
    /\ since_current' = [since_current EXCEPT ![s] = 0]
    /\ IF check_due[s]
       THEN /\ pc' = [pc EXCEPT ![s] = "poll"]
            /\ UNCHANGED since_check
       ELSE /\ pc' = [pc EXCEPT ![s] = "loop"]
            /\ since_check' = [since_check EXCEPT ![s] = SleepTicks]
    /\ UNCHANGED <<sse_clients, sse_lock, user_id, commands_to_send, idx,
                   command, check_due, since_heartbeat, reconnect, requeued,
                   prodVars, health_reply, since_yield>>

\* lines 127-128: the heartbeat was written and the generator is resumed;
\* last_heartbeat becomes current_time, the time read at line 122
HeartbeatSent(s) ==
    /\ pc[s] = "hb_yield"
    /\ wire' = [wire EXCEPT ![s] = Append(@, Untagged(HeartbeatEvent))]
    /\ since_heartbeat' = [since_heartbeat EXCEPT ![s] = since_current[s]]
    /\ since_current' = [since_current EXCEPT ![s] = 0]
    /\ IF check_due[s]
       THEN /\ pc' = [pc EXCEPT ![s] = "poll"]
            /\ UNCHANGED since_check
       ELSE /\ pc' = [pc EXCEPT ![s] = "loop"]
            /\ since_check' = [since_check EXCEPT ![s] = SleepTicks]
    /\ UNCHANGED <<sse_clients, sse_lock, user_id, commands_to_send, idx,
                   command, check_due, reconnect, requeued, prodVars, health_reply, since_yield>>

\* line 127, then 163: the generator is closed at the heartbeat yield;
\* GeneratorExit passes the handler of line 129 and is caught at line 163
HeartbeatClosed(s) ==
    /\ pc[s] = "hb_yield"
    /\ pc' = [pc EXCEPT ![s] = "teardown"]
    /\ DropTimers(s)
    /\ UNCHANGED <<sse_clients, sse_lock, user_id, commands_to_send, idx,
                   command, wire, reconnect, requeued, prodVars, health_reply>>

\* faulty variant of HeartbeatRaised: the exception is logged and the loop
\* goes on
HeartbeatRaised_continuing(s) ==
    /\ pc[s] = "hb_yield"
    /\ pc' = [pc EXCEPT ![s] = "loop"]
    /\ since_check' = [since_check EXCEPT ![s] = SleepTicks]
    /\ UNCHANGED <<sse_clients, sse_lock, user_id, commands_to_send, idx,
                   command, check_due, since_heartbeat, since_current, wire,
                   reconnect, requeued, prodVars, health_reply, since_yield>>

\* lines 129-131: an exception at the heartbeat yield is logged and the loop
\* is left by break; the generator ends
HeartbeatRaised(s) ==
    /\ pc[s] = "hb_yield"
    /\ pc' = [pc EXCEPT ![s] = "closed"]
    /\ DropTimers(s)
    /\ UNCHANGED <<sse_clients, sse_lock, user_id, commands_to_send, idx,
                   command, wire, reconnect, requeued, prodVars, health_reply>>

\* the generator is at line 135 and asks for sse_lock
AtPoll(s) == pc[s] = "poll"

\* lines 135-136, 158, 161: the lock is taken, the queue is empty, the lock
\* is released
PollEmpty(s) ==
    /\ AtPoll(s)
    /\ sse_lock = NoOwner
    /\ QueueOf(user_id[s]) = <<>>
    /\ EndOfPoll(s)
    /\ UNCHANGED <<sse_clients, sse_lock, user_id, commands_to_send, idx,
                   command, since_heartbeat, since_current, wire, reconnect,
                   requeued, prodVars, health_reply, since_yield>>

\* lines 135-143: the lock is taken, the head of the queue is popped and
\* yielded with the lock held
PollPop(s) ==
    /\ AtPoll(s)
    /\ sse_lock = NoOwner
    /\ QueueOf(user_id[s]) # <<>>
    /\ sse_lock' = s
    /\ command' = [command EXCEPT ![s] = PopFront(sse_clients[user_id[s]]).head]
    /\ sse_clients' = [sse_clients EXCEPT ![user_id[s]] = PopFront(@).rest]
    /\ pc' = [pc EXCEPT ![s] = "poll_yield"]
    /\ check_due' = [check_due EXCEPT ![s] = TRUE]
    /\ UNCHANGED <<user_id, commands_to_send, idx, since_heartbeat,
                   since_check, since_current, wire, reconnect,
                   requeued, prodVars, health_reply, since_yield>>

\* lines 143-147 and 140-143: the command was written and the queue is not
\* empty: the generator sleeps 0.01 s with the lock held, pops the next
\* command and yields it
PollSent(s) ==
    /\ pc[s] = "poll_yield"
    /\ sse_clients[user_id[s]] # <<>>
    /\ wire' = [wire EXCEPT ![s] = Append(@, command[s])]
    /\ command' = [command EXCEPT ![s] = PopFront(sse_clients[user_id[s]]).head]
    /\ sse_clients' = [sse_clients EXCEPT ![user_id[s]] = PopFront(@).rest]
    /\ UNCHANGED <<sse_lock, pc, user_id, commands_to_send, idx, check_due,
                   since_heartbeat, since_check, since_current,
                   reconnect, requeued, prodVars, health_reply, since_yield>>

\* lines 143-161: the command was written and the queue is empty: the while
\* loop ends, the lock is released
PollDone(s) ==
    /\ pc[s] = "poll_yield"
    /\ sse_clients[user_id[s]] = <<>>
    /\ wire' = [wire EXCEPT ![s] = Append(@, command[s])]
    /\ command' = [command EXCEPT ![s] = NoCommand]
    /\ sse_lock' = NoOwner
    /\ EndOfPoll(s)
    /\ UNCHANGED <<sse_clients, user_id, commands_to_send, idx,
                   since_heartbeat, since_current, reconnect, requeued, prodVars, health_reply, since_yield>>

\* line 143, then 163: the generator is closed at the yield of a popped
\* command.  GeneratorExit passes the handlers of lines 148 and 155, the with
\* statement of line 135 releases the lock, and line 163 catches it.
\* command is a local: the popped command is in no queue.
PollClosed(s) ==
    /\ pc[s] = "poll_yield"
    /\ sse_lock' = NoOwner
    /\ command' = [command EXCEPT ![s] = NoCommand]
    /\ DropTimers(s)
    /\ pc' = [pc EXCEPT ![s] = "teardown"]
    /\ UNCHANGED <<sse_clients, user_id, commands_to_send, idx, wire,
                   reconnect, requeued, prodVars, health_reply>>

\* faulty variant of PollRaised: after the command is put back the
\* generator ends, as it does after an exception at the heartbeat yield
PollRaised_closing(s) ==
    /\ pc[s] = "poll_yield"
    /\ sse_clients' = [sse_clients EXCEPT ![user_id[s]] = PushFront(@, command[s])]
    /\ command' = [command EXCEPT ![s] = NoCommand]
    /\ sse_lock' = NoOwner
    /\ DropTimers(s)
    /\ pc' = [pc EXCEPT ![s] = "closed"]
    /\ UNCHANGED <<user_id, commands_to_send, idx, wire, reconnect, prodVars,
                   health_reply>>

\* lines 148-161: an exception at the yield of a popped command: the command
\* is put back at the head, break leaves the while loop, the lock is released
\* and the generator goes on with its loop
PollRaised(s) ==
    /\ pc[s] = "poll_yield"
    /\ sse_clients' = [sse_clients EXCEPT ![user_id[s]] = PushFront(@, command[s])]
    /\ command' = [command EXCEPT ![s] = NoCommand]
    /\ sse_lock' = NoOwner
    /\ EndOfPoll(s)
    /\ UNCHANGED <<user_id, commands_to_send, idx, since_heartbeat,
                   since_current, wire, reconnect, prodVars, health_reply, since_yield>>

\* faulty variant of Teardown: the handler removes the recipient from the
\* registry
Teardown_evicting(s) ==
    /\ pc[s] = "teardown"
    /\ sse_lock = NoOwner
    /\ sse_clients' = [u \in DOMAIN sse_clients \ {user_id[s]} |-> sse_clients[u]]
    /\ pc' = [pc EXCEPT ![s] = "closed"]
    /\ UNCHANGED <<sse_lock, user_id, commands_to_send, idx, command,
                   check_due, since_heartbeat, since_check, since_current,
                   wire, reconnect, requeued, prodVars, health_reply, since_yield>>

\* lines 163-168: the handler of GeneratorExit takes the lock, reads the
\* length of the queue for the log and the generator ends
Teardown(s) ==
    /\ pc[s] = "teardown"
    /\ sse_lock = NoOwner
    /\ pc' = [pc EXCEPT ![s] = "closed"]
    /\ UNCHANGED <<sse_clients, sse_lock, user_id, commands_to_send, idx,
                   command, check_due, since_heartbeat, since_check,
                   since_current, wire, reconnect, requeued, prodVars, health_reply, since_yield>>

\* -------------------------------------------------------------------- time
SteadyPcs == {"loop", "hb_yield", "poll", "poll_yield"}

\* the heartbeats written to the peer of s
Beats(s) == Cardinality({i \in DOMAIN wire[s] : wire[s][i].event.type = "heartbeat"})
RECURSIVE SumBeats(_)
SumBeats(S) == IF S = {} THEN 0
               ELSE LET s == CHOOSE t \in S : TRUE IN Beats(s) + SumBeats(S \ {s})

\* d ticks pass for the sessions of S: their running timers age by d.  The
\* code compares an age with command_check_interval and heartbeat_interval
\* only, so since_heartbeat is kept up to cap and the others up to the
\* interval they are compared with.
Advance(S, d, cap) ==
    /\ since_heartbeat' = [s \in Sessions |->
          IF s \in S /\ pc[s] \in SteadyPcs
          THEN Min(since_heartbeat[s] + d, cap) ELSE since_heartbeat[s]]
    /\ since_check' = [s \in Sessions |->
          IF s \in S /\ pc[s] \in SteadyPcs
          THEN Min(since_check[s] + d, CommandCheckTicks) ELSE since_check[s]]
    /\ since_current' = [s \in Sessions |->
          IF s \in S /\ pc[s] = "hb_yield"
          THEN Min(since_current[s] + d, HeartbeatTicks) ELSE since_current[s]]
    /\ since_yield' = [s \in Sessions |->
          IF s \in S /\ pc[s] \in SteadyPcs
          THEN Min(since_yield[s] + d, cap) ELSE since_yield[s]]

\* The clock of the untimed specification: nothing bounds the time between
\* two steps, and the ages short of heartbeat_interval are all alike to the
\* code.  Elapse lets heartbeat_interval pass on the timers of one session.
\* The generator reads the clock at line 122 only, so the time that passes
\* elsewhere in an iteration shows when the generator is back at line 121.
Elapse(s) ==
    /\ pc[s] = "loop"
    /\ SumBeats(Sessions) < MaxBeats
    /\ Advance({s}, HeartbeatTicks, HeartbeatTicks)
    /\ UNCHANGED <<sse_clients, sse_lock, pc, user_id, commands_to_send, idx,
                   command, check_due, wire, reconnect, requeued, prodVars, health_reply>>

\* The clock of the timed specification counts the time exactly and is
\* watched once a second: Tick lets one second pass.  A generator that has
\* only to run, or to take a lock that is free, does so before the clock
\* moves; a generator suspended at a yield waits for its peer, one at line
\* 135 (or 81, 89, 166) waits for the holder of sse_lock, and one at line
\* 121 with no heartbeat due may be in time.sleep(0.05).
Urgent(s) ==
    \/ pc[s] \in {"register", "drain", "poll", "teardown"} /\ sse_lock = NoOwner
    \/ pc[s] = "loop" /\ HeartbeatDue(s)

Tick ==
    /\ \E s \in Sessions : pc[s] \in SteadyPcs
    /\ \A s \in Sessions : ~Urgent(s)
    /\ SumBeats(Sessions) < MaxTimedBeats
    /\ Advance(Sessions, TicksPerSecond, HeartbeatTicks + TicksPerSecond)
    /\ UNCHANGED <<sse_clients, sse_lock, pc, user_id, commands_to_send, idx,
                   command, check_due, wire, reconnect, requeued, prodVars, health_reply>>

\* ------------------------------------------------------------ specification
Init ==
    /\ sse_clients = <<>>
    /\ sse_lock = NoOwner
    /\ pc = [s \in Sessions |-> "idle"]
    /\ user_id = [s \in Sessions |-> None]
    /\ commands_to_send = [s \in Sessions |-> <<>>]
    /\ idx = [s \in Sessions |-> 0]
    /\ command = [s \in Sessions |-> NoCommand]
    /\ check_due = [s \in Sessions |-> FALSE]
    /\ since_heartbeat = [s \in Sessions |-> 0]
    /\ since_check = [s \in Sessions |-> 0]
    /\ since_current = [s \in Sessions |-> 0]
    /\ wire = [s \in Sessions |-> <<>>]
    /\ reply = 0
    /\ accepted = <<>>
    /\ reconnect = [s \in Sessions |-> FALSE]
    /\ requeued = {}
    /\ health_reply = <<>>
    /\ since_yield = [s \in Sessions |-> 0]
    /\ chat_messages = <<>>
    /\ replying = [p \in OperatorReplyThreads |-> <<>>]

Next ==
    \/ \E p \in SendCommandThreads, u \in Users : send_command(p, u, "sms")
    \/ \E p \in OperatorReplyThreads, u \in Users : operator_reply(p, u, "hi", TRUE)
    \/ \E s \in Sessions : \E u \in Routes[s] : InSlotOrder(s) /\ Open(s, u)
    \/ \E s \in Sessions : ConnectedSent(s)
    \/ \E s \in Sessions : ConnectedFailed(s)
    \/ \E s \in Sessions : Register(s)
    \/ \E s \in Sessions : DrainNothing(s)
    \/ \E s \in Sessions : DrainStart(s)
    \/ \E s \in Sessions : DrainSent(s)
    \/ \E s \in Sessions : DrainDone(s)
    \/ \E s \in Sessions : DrainClosed(s)
    \/ \E s \in Sessions : DrainRaised(s)
    \/ \E s \in Sessions : LoopHeartbeat(s)
    \/ \E s \in Sessions : LoopIdle(s)
    \/ \E s \in Sessions : LoopCheck(s)
    \/ \E s \in Sessions : HeartbeatSent(s)
    \/ \E s \in Sessions : HeartbeatClosed(s)
    \/ \E s \in Sessions : HeartbeatRaised(s)
    \/ \E s \in Sessions : PollEmpty(s)
    \/ \E s \in Sessions : PollPop(s)
    \/ \E s \in Sessions : PollSent(s)
    \/ \E s \in Sessions : PollDone(s)
    \/ \E s \in Sessions : PollClosed(s)
    \/ \E s \in Sessions : PollRaised(s) /\ UNCHANGED requeued
    \/ \E s \in Sessions : Teardown(s)
    \/ \E s \in Sessions : Elapse(s)
    \/ health /\ UNCHANGED health_reply

Spec == Init /\ [][Next]_vars

\* The live specification adds what the scheduling gives a generator whose
\* peer reads: a generator that can run does run and a write to its peer
\* returns (Runs), a generator that waits for sse_lock gets it if the lock
\* is free again and again (Acquires), and a command that is written again
\* and again is written with success in the end (PollWrites).
Runs(s) ==
    \/ ConnectedSent(s) \/ DrainSent(s) \/ DrainDone(s)
    \/ LoopHeartbeat(s) \/ LoopIdle(s) \/ LoopCheck(s) \/ HeartbeatSent(s)

PollWrites(s) == PollSent(s) \/ PollDone(s)

Acquires(s) ==
    \/ Register(s) \/ DrainNothing(s) \/ DrainStart(s)
    \/ PollEmpty(s) \/ PollPop(s) \/ Teardown(s)

Fairness ==
    \A s \in Sessions :
        WF_vars(Runs(s)) /\ SF_vars(PollWrites(s)) /\ SF_vars(Acquires(s))

LiveSpec == Init /\ [][Next]_vars /\ Fairness

\* The failure specification keeps the history of the commands put back at
\* line 151.  Its commands come from send_command alone.
Requeued(s) == requeued' = requeued \cup {command[s].seq}

FailureNext ==
    \/ \E p \in SendCommandThreads, u \in Users : send_command(p, u, "sms")
    \/ \E s \in Sessions : \E u \in Routes[s] : InSlotOrder(s) /\ Open(s, u)
    \/ \E s \in Sessions : ConnectedSent(s)
    \/ \E s \in Sessions : ConnectedFailed(s)
    \/ \E s \in Sessions : Register(s)
    \/ \E s \in Sessions : DrainNothing(s)
    \/ \E s \in Sessions : DrainStart(s)
    \/ \E s \in Sessions : DrainSent(s)
    \/ \E s \in Sessions : DrainDone(s)
    \/ \E s \in Sessions : DrainClosed(s)
    \/ \E s \in Sessions : DrainRaised(s)
    \/ \E s \in Sessions : LoopHeartbeat(s)
    \/ \E s \in Sessions : LoopIdle(s)
    \/ \E s \in Sessions : LoopCheck(s)
    \/ \E s \in Sessions : HeartbeatSent(s)
    \/ \E s \in Sessions : HeartbeatClosed(s)
    \/ \E s \in Sessions : HeartbeatRaised(s)
    \/ \E s \in Sessions : PollEmpty(s)
    \/ \E s \in Sessions : PollPop(s)
    \/ \E s \in Sessions : PollSent(s)
    \/ \E s \in Sessions : PollDone(s)
    \/ \E s \in Sessions : PollClosed(s)
    \/ \E s \in Sessions : PollRaised(s) /\ Requeued(s)
    \/ \E s \in Sessions : Teardown(s)
    \/ \E s \in Sessions : Elapse(s)
    \/ health /\ UNCHANGED health_reply

FailureSpec == Init /\ [][FailureNext]_vars

\* The request specification gives the producers every kind of request
\* (with and without the required fields, with and without the database) and
\* keeps the response of health; its streams open, drain and poll, and no
\* write of theirs fails.
RequestNext ==
    \/ \E p \in SendCommandThreads, u \in Users \cup {None}, action \in {"sms", None} :
          send_command(p, u, action)
    \/ \E p \in OperatorReplyThreads, u \in Users \cup {None}, message \in {"hi", None},
          db_ok \in BOOLEAN :
          operator_reply(p, u, message, db_ok)
    \/ health /\ health_reply' = <<HealthResponse>>
    \/ \E s \in Sessions : \E u \in Routes[s] : InSlotOrder(s) /\ Open(s, u)
    \/ \E s \in Sessions : ConnectedSent(s)
    \/ \E s \in Sessions : Register(s)
    \/ \E s \in Sessions : DrainNothing(s)
    \/ \E s \in Sessions : DrainStart(s)
    \/ \E s \in Sessions : DrainSent(s)
    \/ \E s \in Sessions : DrainDone(s)
    \/ \E s \in Sessions : LoopIdle(s)
    \/ \E s \in Sessions : LoopCheck(s)
    \/ \E s \in Sessions : PollEmpty(s)
    \/ \E s \in Sessions : PollPop(s)
    \/ \E s \in Sessions : PollSent(s)
    \/ \E s \in Sessions : PollDone(s)

RequestSpec == Init /\ [][RequestNext]_vars

\* The reply specification takes operator_reply in its two parts, so that
\* the state between the commit and the critical section is seen: a thread
\* that has committed waits for sse_lock while a stream holds it.  Its
\* streams open, drain and poll, and no write of theirs fails.
ReplyNext ==
    \/ \E p \in SendCommandThreads, u \in Users : send_command(p, u, "sms")
    \/ \E p \in OperatorReplyThreads, u \in Users, message \in {"hi", None},
          db \in DbOutcomes :
          operator_reply_persist(p, u, message, db)
    \/ \E p \in OperatorReplyThreads : operator_reply_enqueue(p)
    \/ \E s \in Sessions : \E u \in Routes[s] : InSlotOrder(s) /\ Open(s, u)
    \/ \E s \in Sessions : ConnectedSent(s)
    \/ \E s \in Sessions : Register(s)
    \/ \E s \in Sessions : DrainNothing(s)
    \/ \E s \in Sessions : DrainStart(s)
    \/ \E s \in Sessions : DrainSent(s)
    \/ \E s \in Sessions : DrainDone(s)
    \/ \E s \in Sessions : LoopIdle(s)
    \/ \E s \in Sessions : LoopCheck(s)
    \/ \E s \in Sessions : PollEmpty(s)
    \/ \E s \in Sessions : PollPop(s)
    \/ \E s \in Sessions : PollSent(s)
    \/ \E s \in Sessions : PollDone(s)

ReplySpec == Init /\ [][ReplyNext]_vars

\* The timed specification follows the streams with the exact clock from the
\* state in which send_command has enqueued one command for u2 and no stream
\* was opened yet; no producer runs afterwards.
TimedInit ==
    /\ sse_clients = ("u2" :> <<Tagged(BotCommand("sms", "p1", 1), 1)>>)
    /\ sse_lock = NoOwner
    /\ pc = [s \in Sessions |-> "idle"]
    /\ user_id = [s \in Sessions |-> None]
    /\ commands_to_send = [s \in Sessions |-> <<>>]
    /\ idx = [s \in Sessions |-> 0]
    /\ command = [s \in Sessions |-> NoCommand]
    /\ check_due = [s \in Sessions |-> FALSE]
    /\ since_heartbeat = [s \in Sessions |-> 0]
    /\ since_check = [s \in Sessions |-> 0]
    /\ since_current = [s \in Sessions |-> 0]
    /\ wire = [s \in Sessions |-> <<>>]
    /\ reply = 200
    /\ accepted = <<[user |-> "u2", by |-> "p1",
                     item |-> Tagged(BotCommand("sms", "p1", 1), 1)]>>
    /\ reconnect = [s \in Sessions |-> FALSE]
    /\ requeued = {}
    /\ health_reply = <<>>
    /\ since_yield = [s \in Sessions |-> 0]
    /\ chat_messages = <<>>
    /\ replying = [p \in OperatorReplyThreads |-> <<>>]

TimedNext ==
    \/ \E s \in Sessions : \E u \in Routes[s] : InSlotOrder(s) /\ Open(s, u)
    \/ \E s \in Sessions : ConnectedSent(s)
    \/ \E s \in Sessions : ConnectedFailed(s)
    \/ \E s \in Sessions : Register(s)
    \/ \E s \in Sessions : DrainNothing(s)
    \/ \E s \in Sessions : DrainStart(s)
    \/ \E s \in Sessions : DrainDone(s)
    \/ \E s \in Sessions : DrainClosed(s)
    \/ \E s \in Sessions : DrainRaised(s)
    \/ \E s \in Sessions : LoopHeartbeat(s)
    \/ \E s \in Sessions : LoopIdle(s)
    \/ \E s \in Sessions : LoopCheck(s)
    \/ \E s \in Sessions : HeartbeatSent(s)
    \/ \E s \in Sessions : HeartbeatClosed(s)
    \/ \E s \in Sessions : HeartbeatRaised(s)
    \/ \E s \in Sessions : PollEmpty(s)
    \/ \E s \in Sessions : Teardown(s)
    \/ Tick

TimedSpec == TimedInit /\ [][TimedNext]_vars

\* ----------------------------------------------------------------- helpers
InSeq(x, q) == \E i \in DOMAIN q : q[i] = x
IsPrefix(p, q) == Len(p) <= Len(q) /\ SubSeq(q, 1, Len(p)) = p
\* the commands written to the peer of s, in order
Emitted(s) == SelectSeq(wire[s], IsCommand)
\* the commands appended for u, in the order of their critical sections
AcceptedFor(u) ==
    LET a == SelectSeq(accepted, LAMBDA r : r.user = u)
    IN  [i \in 1..Len(a) |-> a[i].item]
\* the commands a running generator holds in its locals: the rest of the
\* drained backlog, or the popped command that is being written
Held(s) ==
    IF pc[s] \in {"drain_yield", "drain_blocked"}
    THEN SubSeq(commands_to_send[s], idx[s], Len(commands_to_send[s]))
    ELSE IF pc[s] = "poll_yield" THEN <<command[s]>> ELSE <<>>
\* s is the only stream that was ever opened for its recipient
OnlySession(s) == \A t \in Sessions \ {s} : user_id[t] # user_id[s]
\* b was opened for the recipient of a after the generator of a had ended
\* or had been closed
Successive(a, b) ==
    /\ a # b
    /\ user_id[a] # None
    /\ user_id[a] = user_id[b]
    /\ ~reconnect[a]
    /\ reconnect[b]
\* the generator of s is suspended at the yield of a command (99, 143): the
\* serving layer is writing the command, or the sleep of 103 or 147 follows
MidSend(s) == pc[s] \in {"drain_yield", "poll_yield"}
\* the with statement of lines 391, 421 and 964 can be entered
LockFree == sse_lock = NoOwner
\* the steps of the generator that holds the lock since line 89 or 135
HolderStep(s) ==
    \/ DrainSent(s) \/ DrainDone(s) \/ DrainClosed(s) \/ DrainRaised(s)
    \/ PollSent(s) \/ PollDone(s) \/ PollClosed(s) \/ PollRaised(s)
\* no generator runs for u: every stream opened for u has ended
Offline(u) == \A s \in Sessions : user_id[s] = u => pc[s] = "closed"
\* the tags of the commands written to the streams of u
EmittedTags(u) ==
    UNION { {Emitted(s)[i].seq : i \in DOMAIN Emitted(s)} :
                s \in {x \in Sessions : user_id[x] = u} }
\* the tag of the command written last to a stream of u (0: none was)
LastEmitted(u) ==
    IF EmittedTags(u) = {} THEN 0
    ELSE CHOOSE m \in EmittedTags(u) : \A k \in EmittedTags(u) : k <= m
\* the commands appended for u after the one that was written last
SinceLastEmission(u) ==
    SelectSeq(AcceptedFor(u), LAMBDA c : c.seq > LastEmitted(u))
\* the chat_message commands appended by operator_reply, in order
AcceptedReplies ==
    SelectSeq(accepted, LAMBDA r : r.item.event.type = "chat_message")
\* no stream for u has got as far as reading the queue of u
NoConsumer(u) ==
    \A s \in Sessions : user_id[s] = u =>
        pc[s] \in {"connected", "register", "drain"} \/ wire[s] = <<>>

TypeOK ==
    /\ DOMAIN sse_clients \subseteq Users
    /\ sse_lock \in Sessions \cup {NoOwner}
    /\ \A s \in Sessions : since_heartbeat[s] \in 0..(HeartbeatTicks + TicksPerSecond)
    /\ Len(accepted) <= MaxCmds
    /\ Len(chat_messages) <= MaxCmds
    /\ \A p \in OperatorReplyThreads : Len(replying[p]) <= 1
    /\ \A u \in Users : \A i, j \in DOMAIN QueueOf(u) :
          i < j => QueueOf(u)[i].seq < QueueOf(u)[j].seq

\* ------------------------------------------------------------------ claims
\* C1 -- FIFO per recipient: the commands written to the peer of a session
\* appear in the order in which they were enqueued (the tag of a command is
\* its rank among the enqueued commands), whatever heartbeats lie between
\* them; so two commands enqueued before the session was opened are emitted
\* in their enqueue order.
C1_Fifo ==
    \A s \in Sessions : \A i, j \in DOMAIN wire[s] :
        (i < j /\ IsCommand(wire[s][i]) /\ IsCommand(wire[s][j]))
            => wire[s][i].seq < wire[s][j].seq

\* two commands were waiting when the only stream of their recipient took
\* its backlog, and both were written
C1_Witness ==
    \E s \in Sessions :
        /\ OnlySession(s)
        /\ Len(commands_to_send[s]) = 2
        /\ idx[s] = 3
        /\ Emitted(s) = AcceptedFor(user_id[s])

\* C2 -- Backlog durability: for the only stream of a recipient, while it is
\* suspended in the connect-time drain the queue is empty, the backlog it
\* took is exactly what was enqueued and what it has written is the part
\* before the command in flight; and once it is in the steady state, what
\* it has written, then the command in flight, then the queue, is exactly
\* what was enqueued, in enqueue order.
C2_BacklogDurability ==
    \A s \in Sessions : OnlySession(s) =>
        /\ pc[s] = "drain_yield" =>
              /\ QueueOf(user_id[s]) = <<>>
              /\ commands_to_send[s] = AcceptedFor(user_id[s])
              /\ Emitted(s) = SubSeq(commands_to_send[s], 1, idx[s] - 1)
        /\ pc[s] \in SteadyPcs =>
              Emitted(s) \o Held(s) \o QueueOf(user_id[s]) = AcceptedFor(user_id[s])

\* the only stream of a recipient is in its loop, has written the two
\* commands of its backlog, and the queue is empty
C2_Witness ==
    \E s \in Sessions :
        /\ OnlySession(s)
        /\ pc[s] = "loop"
        /\ Len(commands_to_send[s]) = 2
        /\ Emitted(s) = commands_to_send[s]
        /\ QueueOf(user_id[s]) = <<>>

\* C3 -- Reconnect continuity: when a stream was closed in the middle of its
\* connect-time drain and a later stream of the same recipient has reached
\* the steady state, that later stream has first written the commands the
\* closed one had drained and not written.
C3_ReconnectContinuity ==
    \A a, b \in Sessions :
        ( /\ a # b
          /\ user_id[a] = user_id[b]
          /\ pc[a] = "closed"
          /\ idx[a] \in 1..Len(commands_to_send[a])
          /\ reconnect[b]
          /\ pc[b] \in SteadyPcs )
        => IsPrefix(SubSeq(commands_to_send[a], idx[a], Len(commands_to_send[a])),
                    Emitted(b))

\* a stream was closed while it was writing the first command of its
\* backlog; the next stream of the recipient found the queue empty and is in
\* its loop, having written no command
C3_Lost ==
    \E a, b \in Sessions :
        /\ a # b
        /\ user_id[a] = user_id[b]
        /\ pc[a] = "closed"
        /\ idx[a] = 1
        /\ Len(commands_to_send[a]) >= 1
        /\ reconnect[b]
        /\ pc[b] = "loop"
        /\ Emitted(b) = <<>>
        /\ QueueOf(user_id[b]) = <<>>

\* C4 -- No loss: every command that was accepted is in the queue of its
\* recipient, or was written to a stream of that recipient, or is held by a
\* running generator of that recipient that is about to write it.
C4_NoLoss ==
    \A i \in DOMAIN accepted :
        \/ InSeq(accepted[i].item, QueueOf(accepted[i].user))
        \/ \E s \in Sessions :
              /\ user_id[s] = accepted[i].user
              /\ InSeq(accepted[i].item, wire[s]) \/ InSeq(accepted[i].item, Held(s))

\* a stream was closed while it was writing a command it had popped in the
\* steady state: the command is in no queue, on no stream and held by nobody
C4_Lost ==
    \E s \in Sessions : \E i \in DOMAIN accepted :
        /\ user_id[s] = accepted[i].user
        /\ pc[s] \in {"teardown", "closed"}
        /\ commands_to_send[s] = <<>>
        /\ OnlySession(s)
        /\ ~InSeq(accepted[i].item, QueueOf(accepted[i].user))
        /\ ~InSeq(accepted[i].item, wire[s])

\* C5 -- Isolation: a command enqueued for one recipient is never in the
\* queue of another recipient, never written to a stream of another
\* recipient and never held by a generator of another recipient.
C5_Isolation ==
    \A i \in DOMAIN accepted : \A u \in Users \ {accepted[i].user} :
        /\ ~InSeq(accepted[i].item, QueueOf(u))
        /\ \A s \in Sessions : user_id[s] = u =>
              /\ ~InSeq(accepted[i].item, wire[s])
              /\ ~InSeq(accepted[i].item, Held(s))
              /\ ~InSeq(accepted[i].item, commands_to_send[s])

\* two streams of different recipients have each written a command
C5_Witness ==
    \E s, t \in Sessions :
        /\ user_id[s] = "u1" /\ user_id[t] = "u2"
        /\ Len(Emitted(s)) = 1 /\ Len(Emitted(t)) = 1

\* C6 -- Creation race among producers: while no stream has read the queue
\* of a recipient, the registry holds for it the one queue with exactly the
\* commands enqueued for it, in the order of the critical sections (so each
\* thread's own commands are in its issue order), and every enqueue was
\* answered 200.
C6_ProducerRace ==
    /\ accepted # <<>> => reply = 200
    /\ \A u \in Users : NoConsumer(u) => QueueOf(u) = AcceptedFor(u)

\* two threads, one in send_command and one in operator_reply, have enqueued
\* for a recipient that had no queue
C6_Witness ==
    \E u \in Users :
        /\ NoConsumer(u)
        /\ Len(QueueOf(u)) = 2
        /\ {accepted[i].by : i \in DOMAIN accepted} = Producers
        /\ \A i \in DOMAIN accepted : accepted[i].user = u

\* C7 -- Atomic check-then-create across operation kinds: the registration
\* step of a stream leaves the queue of its recipient as it was, and the
\* enqueue step of a producer puts the new command behind what the queue of
\* the recipient held, whether or not a stream had registered the queue.
C7_CreateKeepsQueue ==
    [][ /\ \A s \in Sessions :
              (pc[s] = "register" /\ pc'[s] = "drain")
                  => sse_clients'[user_id[s]] = QueueOf(user_id[s])
        /\ Len(accepted') > Len(accepted) =>
              LET new == accepted'[Len(accepted')]
              IN  sse_clients'[new.user] = Append(QueueOf(new.user), new.item)
      ]_vars

\* a stream has registered its recipient after the first command for that
\* recipient was enqueued: the command is still in the queue
C7_Witness ==
    \E s \in Sessions :
        /\ pc[s] = "drain"
        /\ Len(accepted) = 1
        /\ QueueOf(user_id[s]) = AcceptedFor(user_id[s])
        /\ Len(QueueOf(user_id[s])) = 1

\* C8 -- Heartbeat liveness: a stream that is in the steady state and is
\* not itself writing, for whose recipient nothing was ever enqueued and
\* which has written no heartbeat yet, entered the steady state no longer
\* ago than heartbeat_interval: no window longer than the interval goes by
\* without a heartbeat.
C8_HeartbeatLiveness ==
    \A s \in Sessions :
        (pc[s] \in {"loop", "poll"} /\ AcceptedFor(user_id[s]) = <<>> /\ Beats(s) = 0)
            => since_heartbeat[s] <= HeartbeatTicks

\* a stream with nothing to send waits at line 135 for sse_lock, which the
\* stream of another recipient holds while its peer reads a command, and
\* has been in the steady state for more than heartbeat_interval without a
\* heartbeat
C8_Overdue ==
    \E s \in Sessions :
        /\ pc[s] = "poll"
        /\ AcceptedFor(user_id[s]) = <<>>
        /\ Beats(s) = 0
        /\ since_heartbeat[s] > HeartbeatTicks
        /\ sse_lock \in Sessions \ {s}
        /\ pc[sse_lock] = "drain_yield"
        /\ user_id[sse_lock] # user_id[s]

\* C9 -- Idle silence: on a stream of a recipient for which nothing was ever
\* enqueued, every event after the first is a heartbeat, whatever was
\* enqueued for other recipients.
C9_IdleSilence ==
    \A s \in Sessions : AcceptedFor(user_id[s]) = <<>> =>
        \A i \in DOMAIN wire[s] : i > 1 => wire[s][i].event.type = "heartbeat"

\* a stream has written connected and a heartbeat while both commands of the
\* run were enqueued for the other recipient
C9_Witness ==
    \E s \in Sessions :
        /\ AcceptedFor(user_id[s]) = <<>>
        /\ Len(accepted) = 2
        /\ Len(wire[s]) = 2
        /\ wire[s][2].event.type = "heartbeat"

\* C10 -- connected once and first: a generator that has got past its first
\* yield has written connected as the first event of its stream, and no
\* later event of a stream is connected.
C10_ConnectedFirst ==
    \A s \in Sessions :
        /\ pc[s] \notin {"idle", "connected", "closed"} => wire[s] # <<>>
        /\ \A i \in DOMAIN wire[s] :
              (wire[s][i].event.type = "connected") <=> (i = 1)

\* a stream has written connected, a command of its backlog and a heartbeat
C10_Witness ==
    \E s \in Sessions :
        /\ Len(wire[s]) = 3
        /\ IsCommand(wire[s][2])
        /\ wire[s][3].event.type = "heartbeat"

\* C11 -- Teardown is no cleanup: a step by which a generator ends, or
\* enters or runs its handler of GeneratorExit, leaves the registry, its
\* keys and every queue, as it was.
C11_TeardownKeepsQueues ==
    [][ \A s \in Sessions :
            (pc[s] # pc'[s] /\ (pc[s] = "teardown" \/ pc'[s] \in {"teardown", "closed"}))
                => sse_clients' = sse_clients
      ]_vars

\* a stream has ended at its first heartbeat write, with nothing else
\* written after the connected event, while a command waited in the queue of
\* its recipient, and the command still waits there
C11_Witness ==
    \E s \in Sessions :
        /\ pc[s] = "closed"
        /\ Beats(s) = 0
        /\ Len(wire[s]) = 1
        /\ since_heartbeat[s] = 0
        /\ user_id[s] \in DOMAIN sse_clients
        /\ Len(sse_clients[user_id[s]]) = 1
        /\ Len(accepted) = 1

\* C12 -- No eviction: a recipient that has a queue in the registry has one
\* after every step.
C12_NoEviction ==
    [][DOMAIN sse_clients \subseteq DOMAIN sse_clients']_vars

\* both recipients are registered, one by a producer and one by a stream;
\* the queue of the first was drained and both streams have ended
C12_Witness ==
    /\ DOMAIN sse_clients = Users
    /\ \A s \in Sessions : pc[s] = "closed"
    /\ \E s \in Sessions : commands_to_send[s] # <<>>
    /\ \A u \in Users : sse_clients[u] = <<>>

\* C13 -- Failure in the connect-time drain: a step by which a stream
\* leaves the write of a drained command without having written it puts
\* that command and the drained commands after it back at the front of the
\* queue of the recipient, in their order, and ends the stream.
C13_DrainFailureRequeues ==
    [][ \A s \in Sessions :
            (pc[s] = "drain_yield" /\ pc'[s] # "drain_yield" /\ wire'[s] = wire[s])
                => /\ pc'[s] = "closed"
                   /\ sse_clients'[user_id[s]] = Held(s) \o sse_clients[user_id[s]]
      ]_vars

\* an exception was raised at the write of the first of two drained
\* commands: the generator waits for the lock it holds, and neither command
\* is in the queue
C13_Stuck ==
    \E s \in Sessions :
        /\ pc[s] = "drain_blocked"
        /\ sse_lock = s
        /\ idx[s] = 1
        /\ Len(commands_to_send[s]) = 2
        /\ QueueOf(user_id[s]) = <<>>

\* C14 -- Failure in the steady state restores the command: a step by which
\* a stream leaves the write of a popped command without having written it
\* puts the command back at the head, so that the queue is what it was
\* before the pop.
C14_SteadyFailureRestores ==
    [][ \A s \in Sessions :
            (pc[s] = "poll_yield" /\ pc'[s] # "poll_yield" /\ wire'[s] = wire[s])
                => sse_clients'[user_id[s]] = <<command[s]>> \o sse_clients[user_id[s]]
      ]_vars

\* a stream that took no backlog was closed at the write of a popped
\* command and is about to run its handler of GeneratorExit: the queue is
\* empty and the only command accepted for the recipient was never written
C14_Dropped ==
    \E s \in Sessions :
        /\ pc[s] = "teardown"
        /\ OnlySession(s)
        /\ commands_to_send[s] = <<>>
        /\ Len(AcceptedFor(user_id[s])) = 1
        /\ Emitted(s) = <<>>
        /\ QueueOf(user_id[s]) = <<>>

\* C15 -- Failure in the steady state ends the stream: a step by which a
\* stream leaves the write of a popped command without having written it
\* takes the generator to its end or to its handler of GeneratorExit.
C15_SteadyFailureCloses ==
    [][ \A s \in Sessions :
            (pc[s] = "poll_yield" /\ pc'[s] # "poll_yield" /\ wire'[s] = wire[s])
                => pc'[s] \in {"teardown", "closed"}
      ]_vars

\* the only stream of a recipient has written a command that it had put
\* back after an exception at an earlier write of the same command
C15_Retried ==
    \E s \in Sessions :
        /\ OnlySession(s)
        /\ \E i \in DOMAIN wire[s] :
              IsCommand(wire[s][i]) /\ wire[s][i].seq \in requeued

\* C16 -- FIFO across failures: when the streams of a recipient follow one
\* another, the commands written to the first followed by the commands
\* written to the second are in enqueue order and none is written twice,
\* also when a write raised and the command was put back.
C16_FifoAcrossSessions ==
    \A a, b \in Sessions :
        Successive(a, b) =>
            LET e == Emitted(a) \o Emitted(b)
            IN  \A i, j \in DOMAIN e : i < j => e[i].seq < e[j].seq

\* the first stream wrote one command, put the next one back after an
\* exception at its write and was closed; the stream that followed has
\* written the command that was put back
C16_Witness ==
    \E a, b \in Sessions :
        /\ Successive(a, b)
        /\ Len(Emitted(a)) = 1
        /\ Len(Emitted(b)) = 1
        /\ Emitted(b)[1].seq \in requeued
        /\ pc[a] = "closed"

\* C17 -- Producers of other recipients are not held up: whenever a stream
\* is in the middle of sending, the critical section of an enqueue for any
\* other recipient can be entered.
C17_ProducerIndependence ==
    \A s \in Sessions : \A u \in Users :
        (MidSend(s) /\ u # user_id[s]) => LockFree

\* the stream of u2 is writing a command it popped; a command for u1 can
\* still be accepted, and the lock its producer needs is held by the stream
C17_Blocked ==
    \E s \in Sessions :
        /\ user_id[s] = "u2"
        /\ pc[s] = "poll_yield"
        /\ sse_lock = s
        /\ Len(accepted) + Pending < MaxCmds
        /\ ~ENABLED send_command("p1", "u1", "sms")

\* C18 -- Enqueue does not wait on delivery: the lock is never held by a
\* stream whose generator is suspended at the write of a command.
C18_NoLockAcrossWrite ==
    \A s \in Sessions : sse_lock = s => ~MidSend(s)

\* a stream holds the lock while the first of two drained commands is being
\* written: an enqueue for its recipient waits for two writes and the sleep
\* between them
C18_Waiting ==
    \E s \in Sessions :
        /\ sse_lock = s
        /\ pc[s] = "drain_yield"
        /\ idx[s] = 1
        /\ Len(commands_to_send[s]) = 2
        /\ ~ENABLED send_command("p1", user_id[s], "sms")

\* C19 -- Failure isolation: the lock is never held forever; the generator
\* that holds it always has a step to take.
C19_LockHolderProceeds ==
    \A s \in Sessions : sse_lock = s => ENABLED HolderStep(s)

\* after an exception at the write of a drained command the generator waits
\* for the lock it holds itself; another stream waits for the lock at line
\* 81, and neither health nor an enqueue can take it
C19_Deadlock ==
    \E s, t \in Sessions :
        /\ s # t
        /\ sse_lock = s
        /\ pc[s] = "drain_blocked"
        /\ pc[t] = "register"
        /\ ~ENABLED Register(t)
        /\ ~ENABLED health
        /\ Len(accepted) + Pending < MaxCmds
        /\ ~ENABLED send_command("p1", "u1", "sms")

\* C20 -- No fan-out, no duplication: every accepted command was written at
\* most once, counting the streams of all the sessions together.
C20_NoDuplication ==
    \A s, t \in Sessions : \A i \in DOMAIN wire[s] : \A j \in DOMAIN wire[t] :
        (IsCommand(wire[s][i]) /\ wire[s][i] = wire[t][j]) => (s = t /\ i = j)

\* two streams of the same recipient are both in the steady state and each
\* has written one of the two commands
C20_Witness ==
    \E a, b \in Sessions :
        /\ a # b
        /\ user_id[a] = user_id[b]
        /\ pc[a] \in SteadyPcs
        /\ pc[b] \in SteadyPcs
        /\ Len(Emitted(a)) = 1
        /\ Len(Emitted(b)) = 1
        /\ Emitted(a) # Emitted(b)

\* C21 -- No deduplication: a step that accepts a request appends exactly
\* its command to the tail of the queue of its recipient; what was queued
\* stays in front of it, in its order, also when a command of the same
\* content is already there.
C21_AppendsOne ==
    [][ accepted' # accepted =>
            LET r == accepted'[Len(accepted')]
            IN  /\ Len(accepted') = Len(accepted) + 1
                /\ sse_clients'[r.user] = Append(QueueOf(r.user), r.item)
                /\ Len(sse_clients'[r.user]) = Len(QueueOf(r.user)) + 1
      ]_vars

\* the same request was accepted twice: the queue of its recipient holds
\* two commands of equal content
C21_Witness ==
    \E u \in DOMAIN sse_clients :
        /\ Len(sse_clients[u]) = 2
        /\ Content(sse_clients[u][1].event) = Content(sse_clients[u][2].event)
        /\ sse_clients[u][1].seq = 1
        /\ sse_clients[u][2].seq = 2

\* C22 -- Misuse is rejected without effect: a step of a producer that
\* answers 400 leaves the keys of the registry and every queue as they were
\* and accepts nothing.
C22_RejectedWithoutEffect ==
    [][ (reply' = 400 /\ UNCHANGED <<sessVars, sse_lock>>)
            => (sse_clients' = sse_clients /\ accepted' = accepted)
      ]_vars

\* a request without a required field was answered 400 after a command had
\* been queued for u1: the registry holds that command and nothing else
C22_Witness ==
    /\ reply = 400
    /\ Len(accepted) = 1
    /\ DOMAIN sse_clients = {"u1"}
    /\ Len(sse_clients["u1"]) = 1

\* C23 -- Health snapshot: a step of health that gives a new response gives
\* the number of keys of the registry and the number of commands queued in
\* it, both of the state in which it ran, and leaves the registry as it was.
C23_HealthSnapshot ==
    [][ health_reply' # health_reply =>
            /\ health_reply'[1].users_count = Cardinality(DOMAIN sse_clients)
            /\ health_reply'[1].total_commands =
                   Cardinality({ i \in DOMAIN accepted :
                        InSeq(accepted[i].item, QueueOf(accepted[i].user)) })
            /\ sse_clients' = sse_clients
      ]_vars

\* health has answered while both recipients were registered, two commands
\* were queued for one of them and none for the other
C23_Witness ==
    /\ health_reply = <<[users_count |-> 2, total_commands |-> 2]>>
    /\ \E u \in Users : Len(QueueOf(u)) = 2

\* C24 -- Delivery to an open stream: whenever a stream is in its steady
\* state and a command waits in the queue of its recipient, then later the
\* queue has been emptied by a poll or a drain, or the stream is no longer
\* in its steady state.
C24_PickedUp ==
    \A s \in Sessions :
        (pc[s] \in SteadyPcs /\ QueueOf(user_id[s]) # <<>>)
            ~> (pc[s] \notin SteadyPcs \/ QueueOf(user_id[s]) = <<>>)

\* the only stream of u1 is at line 135 with a command in the queue of u1,
\* while the stream of u2 waits at line 107 for the lock it holds
C24_Starved ==
    \E s, t \in Sessions :
        /\ OnlySession(s)
        /\ pc[s] = "poll"
        /\ QueueOf(user_id[s]) # <<>>
        /\ pc[t] = "drain_blocked"
        /\ sse_lock = t

\* C25 -- Accumulation while offline: while no generator runs for a
\* recipient, its queue is exactly the commands enqueued for it since the
\* last command written to one of its streams, in enqueue order.
C25_OfflineQueue ==
    \A u \in Users : Offline(u) => QueueOf(u) = SinceLastEmission(u)

\* the streams of a recipient have ended, one command was written to them
\* and another was enqueued after it, and the queue is empty
C25_Missing ==
    \E u \in Users :
        /\ Offline(u)
        /\ \E s \in Sessions : user_id[s] = u
        /\ LastEmitted(u) = 1
        /\ Len(SinceLastEmission(u)) = 1
        /\ QueueOf(u) = <<>>

\* C26 -- Atomic drain at open: the step by which a stream takes its
\* backlog copies the whole queue of its recipient, in its order, and leaves
\* the queue empty; each write of the drain that follows adds the next
\* command of that copy, so that what the stream has written is the front
\* part of the queue as it was at that step.
C26_AtomicDrain ==
    [][ \A s \in Sessions :
          /\ (pc[s] = "drain" /\ pc'[s] = "drain_yield")
                => /\ commands_to_send'[s] = QueueOf(user_id[s])
                   /\ commands_to_send'[s] # <<>>
                   /\ sse_clients'[user_id[s]] = <<>>
          /\ (pc[s] = "drain_yield" /\ wire'[s] # wire[s])
                => /\ commands_to_send'[s] = commands_to_send[s]
                   /\ SelectSeq(wire'[s], IsCommand)
                        = SubSeq(commands_to_send[s], 1, idx[s])
      ]_vars

\* two streams were opened for a recipient with two commands queued: one
\* took both in its drain and has written them, the other found the queue
\* empty and has written no command
C26_Witness ==
    \E a, b \in Sessions :
        /\ a # b
        /\ user_id[a] = user_id[b]
        /\ Len(commands_to_send[a]) = 2
        /\ Emitted(a) = commands_to_send[a]
        /\ commands_to_send[b] = <<>>
        /\ pc[b] = "loop"
        /\ Emitted(b) = <<>>
        /\ ~reconnect[b]

\* C27 -- Creation on opening a stream: the steps of a generator up to the
\* write of the connected event leave the registry as it is; its
\* registration step, taken with the connected event written, gives a
\* recipient without a queue an empty one, so that the number of keys is one
\* higher and the number of queued commands the same, and leaves a recipient
\* that has a queue, and every queue, as they were.
C27_CreationOnOpen ==
    [][ \A s \in Sessions :
          /\ (pc[s] \in {"idle", "connected"} /\ pc'[s] # pc[s])
                => sse_clients' = sse_clients
          /\ (pc[s] = "register" /\ pc'[s] = "drain")
                => /\ wire[s] = <<Untagged([type |-> "connected"])>>
                   /\ IF user_id[s] \in DOMAIN sse_clients
                      THEN sse_clients' = sse_clients
                      ELSE /\ DOMAIN sse_clients' = DOMAIN sse_clients \cup {user_id[s]}
                           /\ sse_clients'[user_id[s]] = <<>>
                           /\ \A v \in DOMAIN sse_clients : sse_clients'[v] = sse_clients[v]
                           /\ UsersCount(sse_clients') = UsersCount(sse_clients) + 1
                           /\ TotalCommands(sse_clients') = TotalCommands(sse_clients)
      ]_vars

\* a stream has registered a recipient for which nothing was ever enqueued,
\* while a command waits in the queue of the other recipient: two keys, one
\* queued command
C27_Witness ==
    \E s \in Sessions :
        /\ pc[s] = "drain"
        /\ OnlySession(s)
        /\ AcceptedFor(user_id[s]) = <<>>
        /\ UsersCount(sse_clients) = 2
        /\ TotalCommands(sse_clients) = 1
        /\ sse_clients[user_id[s]] = <<>>

\* C28 -- Heartbeat failure is fatal: a step by which a stream leaves the
\* write of a heartbeat without having written it takes the generator to
\* its end or to its handler of GeneratorExit and leaves the registry as it
\* was; from there on the stream writes nothing, never runs its loop again
\* and changes no queue.
C28_HeartbeatFailureFatal ==
    [][ \A s \in Sessions :
          /\ (pc[s] = "hb_yield" /\ pc'[s] # "hb_yield" /\ wire'[s] = wire[s])
                => /\ pc'[s] \in {"teardown", "closed"}
                   /\ sse_clients' = sse_clients
          /\ pc[s] \in {"teardown", "closed"}
                => /\ pc'[s] \in {"teardown", "closed"}
                   /\ wire'[s] = wire[s]
                   /\ pc'[s] # pc[s] => sse_clients' = sse_clients
      ]_vars

\* a stream for whose recipient nothing was ever enqueued has ended with
\* nothing but the connected event written: the write of its first
\* heartbeat failed
C28_Witness ==
    \E s \in Sessions :
        /\ pc[s] = "closed"
        /\ Len(wire[s]) = 1
        /\ user_id[s] \in DOMAIN sse_clients
        /\ AcceptedFor(user_id[s]) = <<>>
        /\ OnlySession(s)

\* C29 -- Disconnect is eventually observed: a stream in its steady state
\* that has come to the command check of line 135 gets past it, and so
\* comes to the next write, at which a disconnect of its peer is observed.
C29_ReachesNextWrite ==
    \A s \in Sessions : (pc[s] = "poll") ~> (pc[s] # "poll")

\* a stream for whose recipient nothing was ever enqueued waits at line 135
\* while another stream waits at line 107 for the lock it holds: the first
\* writes nothing any more and cannot notice that its peer is gone
C29_Unobserved ==
    \E s, t \in Sessions :
        /\ pc[s] = "poll"
        /\ AcceptedFor(user_id[s]) = <<>>
        /\ Len(wire[s]) = 1
        /\ pc[t] = "drain_blocked"
        /\ sse_lock = t
        /\ ~ENABLED PollEmpty(s)

C31_PayloadIntegrity ==
    \A s \in Sessions : \A i \in DOMAIN wire[s] :
        /\ wire[s][i].event.type \in
              {"connected", "heartbeat", "bot_command", "chat_message"}
        /\ IsCommand(wire[s][i]) =>
              \E k \in DOMAIN accepted :
                  /\ accepted[k].user = user_id[s]
                  /\ accepted[k].item = wire[s][i]

\* a stream has written its connected event, a bot_command of its backlog
\* and a chat_message it popped in the steady state
C31_Witness ==
    \E s \in Sessions :
        /\ Len(commands_to_send[s]) = 1
        /\ Len(wire[s]) = 3
        /\ wire[s][1].event.type = "connected"
        /\ wire[s][2].event.type = "bot_command"
        /\ wire[s][3].event.type = "chat_message"

\* C32 -- Single-session global order: what the only stream of a recipient
\* has written of commands is, at every moment, the first commands enqueued
\* for that recipient in the order of their enqueues, wherever the enqueues
\* fell between its connect-time drain and its polls; so the backlog is
\* written before anything enqueued later.
C32_SingleSessionOrder ==
    \A s \in Sessions :
        OnlySession(s) => IsPrefix(Emitted(s), AcceptedFor(user_id[s]))

\* the only stream of a recipient wrote a backlog of one command at its
\* opening and, in the steady state, a command enqueued after the drain,
\* and no write of a command was ever put back
C32_Witness ==
    \E s \in Sessions :
        /\ OnlySession(s)
        /\ Len(commands_to_send[s]) = 1
        /\ Len(Emitted(s)) = 2
        /\ Emitted(s) = AcceptedFor(user_id[s])
        /\ requeued = {}

\* C33 -- Drain passes exclude producers: while a stream holds the lock for
\* a pass (the connect-time drain, or a poll that found commands), no step
\* appends a command, no queue of another recipient changes, no other
\* stream takes or writes a command, and the queue of the stream changes by
\* the steps of that stream alone; each command the stream writes is the
\* head of what was left of the queue found at the start of the pass, and
\* when the pass ends with a write the queue is empty.  A pass of the steady
\* state always comes to an end.
C33_DrainExcludes ==
    /\ [][\A s \in Sessions : (sse_lock = s) =>
            /\ accepted' = accepted
            /\ DOMAIN sse_clients' = DOMAIN sse_clients
            /\ \A v \in DOMAIN sse_clients \ {user_id[s]} :
                  sse_clients'[v] = sse_clients[v]
            /\ \A t \in Sessions \ {s} :
                  Emitted(t)' = Emitted(t) /\ Held(t)' = Held(t)
            /\ (wire'[s] = wire[s] /\ pc'[s] = pc[s]) => sse_clients' = sse_clients
            /\ (wire'[s] # wire[s]) =>
                  /\ Emitted(s)' \o Held(s)' \o QueueOf(user_id[s])'
                        = Emitted(s) \o Held(s) \o QueueOf(user_id[s])
                  /\ Len(Emitted(s)') = Len(Emitted(s)) + 1
            /\ (wire'[s] # wire[s] /\ sse_lock' = NoOwner) =>
                  QueueOf(user_id[s])' = <<>> /\ Held(s)' = <<>>
         ]_vars
    /\ \A s \in Sessions : (pc[s] = "poll_yield") ~> (pc[s] # "poll_yield")

\* a stream found two commands at a poll, has written both in that one pass
\* and has released the lock over an empty queue, while a second stream ran
C33_Witness ==
    \E s, t \in Sessions :
        /\ s # t
        /\ pc[s] = "loop"
        /\ commands_to_send[s] = <<>>
        /\ Len(Emitted(s)) = 2
        /\ Len(wire[s]) = 3
        /\ QueueOf(user_id[s]) = <<>>
        /\ sse_lock = NoOwner
        /\ pc[t] \in SteadyPcs

\* C34 -- No heartbeat inside a drain pass: the commands a stream has written
\* of its backlog follow its connected event one after the other; while a
\* stream holds the lock for a pass, whatever it writes is a command, so no
\* heartbeat lies between two commands of one pass; and a stream that finds
\* both the heartbeat and the command check due in one iteration of its loop
\* yields the heartbeat, and comes to the check once the heartbeat is written.
C34_NoHeartbeatInPass ==
    /\ [](\A s \in Sessions : \A i \in 1..(idx[s] - 1) :
              /\ wire[s][1].event.type = "connected"
              /\ wire[s][i + 1] = commands_to_send[s][i])
    /\ [][\A s \in Sessions :
            /\ (sse_lock = s /\ wire'[s] # wire[s]) =>
                  /\ Len(wire'[s]) = Len(wire[s]) + 1
                  /\ SubSeq(wire'[s], 1, Len(wire[s])) = wire[s]
                  /\ IsCommand(wire'[s][Len(wire'[s])])
            /\ (pc[s] = "loop" /\ HeartbeatDue(s) /\ CheckDue(s) /\ pc'[s] # "loop") =>
                  pc'[s] = "hb_yield" /\ check_due'[s]
            /\ (pc[s] = "hb_yield" /\ check_due[s] /\ wire'[s] # wire[s]) =>
                  /\ wire'[s] = Append(wire[s], Untagged(HeartbeatEvent))
                  /\ pc'[s] = "poll"
         ]_vars

\* a stream has written its connected event and the one command of its
\* backlog; later its heartbeat and its command check were due together: it
\* has written the heartbeat and then the command it found in the queue
C34_Witness ==
    \E s \in Sessions :
        /\ Len(commands_to_send[s]) = 1
        /\ Len(wire[s]) = 4
        /\ wire[s][1].event.type = "connected"
        /\ wire[s][2] = commands_to_send[s][1]
        /\ wire[s][3].event.type = "heartbeat"
        /\ IsCommand(wire[s][4])
        /\ pc[s] = "loop"

\* C35 -- No lock leak on teardown: a stream whose generator has ended, or is
\* in its handler of GeneratorExit, does not hold the lock, by whatever path
\* it came there.
C35_NoLockLeak ==
    \A s \in Sessions : pc[s] \in {"teardown", "closed"} => sse_lock # s

\* one stream was closed by its peer while it was writing the first command
\* of its backlog with the lock held, another while it was writing a command
\* it had popped in the steady state; both have ended and the lock is free
C35_Witness ==
    \E s, t \in Sessions :
        /\ pc[s] = "closed"
        /\ idx[s] = 1
        /\ Len(commands_to_send[s]) >= 1
        /\ Emitted(s) = <<>>
        /\ pc[t] = "closed"
        /\ user_id[t] # user_id[s]
        /\ Len(wire[t]) = 1
        /\ commands_to_send[t] = <<>>
        /\ Len(AcceptedFor(user_id[t])) = 1
        /\ Emitted(t) = <<>>
        /\ QueueOf(user_id[t]) = <<>>
        /\ sse_lock = NoOwner

C37_PersistBeforeEnqueue ==
    /\ [](/\ Len(AcceptedReplies) <= Len(chat_messages)
          /\ \A i \in DOMAIN AcceptedReplies :
                \E k \in DOMAIN chat_messages :
                    chat_messages[k] = ChatRow(AcceptedReplies[i].user,
                                               AcceptedReplies[i].item.event.message))
    /\ [][/\ (AcceptedReplies' # AcceptedReplies) =>
                /\ chat_messages' = chat_messages
                /\ Len(AcceptedReplies') <= Len(chat_messages)
          /\ (reply' = 500 /\ reply # 500) =>
                /\ sse_clients' = sse_clients
                /\ accepted' = accepted
                /\ chat_messages' = chat_messages
                /\ replying' = replying
         ]_vars

\* one reply of the operator was committed and then appended to the queue
\* of its recipient; a later request found no connection or failed at its
\* insert and was answered with status 500: there is one row, one command,
\* and no queue but that of the first recipient
C37_Witness ==
    /\ reply = 500
    /\ Len(chat_messages) = 1
    /\ Len(AcceptedReplies) = 1
    /\ accepted = AcceptedReplies
    /\ DOMAIN sse_clients = {accepted[1].user}
    /\ \A p \in OperatorReplyThreads : replying[p] = <<>>

====
